---- MODULE Spec2Model ----
(***************************************************************************)
(* A model of the camera controller (src/camera.rs), the equirectangular   *)
(* to cubemap converter (src/cubemap.rs) and the application event handler *)
(* (src/bin/main.rs).                                                      *)
(*                                                                         *)
(* f32 quantities are fixed-point integers:                                *)
(*   angles        in 1/AngleScale rad   (1e-4 rad)                        *)
(*   dt            in 1/DtScale s        (milliseconds)                    *)
(*   sensitivity   in 1/SensScale        (tenths)                          *)
(*   sin, cos      in 1/TrigScale                                          *)
(*   unit vectors  in 1/VecScale, VecScale = TrigScale^2                   *)
(*   positions     in 1/(VecScale*DtScale*SensScale) world units           *)
(* Only finite values are modelled: NaN and the infinities are not.        *)
(***************************************************************************)
EXTENDS Integers, Sequences, FiniteSets, TLC

VARIABLES camera,   \* Camera {position, yaw, pitch}
          ctl,      \* CameraController
          held,     \* the keys whose latest event is Pressed (the keyboard)
          axisEvt,  \* per movement axis: the latest key event bound to it
          recent,   \* the latest three calls, oldest first: operation,
                    \* arguments, return value
          nCalls,   \* number of calls made so far
          converter, \* Cubemap {texture_format, equirect_layout, equirect_to_cubemap}
          gpu,      \* what the device and the queue were asked to do, in order
          builds,   \* the Cubemap::build calls so far: arguments, return value
          app,      \* App {window_state, last_render_time}
          exiting,  \* whether event_loop.exit() was called
          frames,   \* the WindowState methods called so far, in order
          errlog,   \* the messages given to log::error!
          clock,    \* Instant::now()
          events    \* the events handled so far

camVars == <<camera, ctl, held, axisEvt, recent, nCalls>>

cubeVars == <<converter, gpu, builds>>

appVars == <<app, exiting, frames, errlog, clock, events>>

vars == <<camVars, cubeVars, appVars>>

-----------------------------------------------------------------------------
(* Bounds of the model *)

MaxCalls == 4

MaxKeyCalls == 2

MaxBuilds == 2

MaxDstSize == 17

MaxEvents == 4

-----------------------------------------------------------------------------
(* Fixed-point scales *)

AngleScale == 10000

DtScale == 1000

SensScale == 10

TrigScale == 25

VecScale == TrigScale * TrigScale

-----------------------------------------------------------------------------
(* std::f32::consts::FRAC_PI_2 and camera.rs SAFE_FRAC_PI_2 *)

FRAC_PI_2 == 15708

\* FRAC_PI_2 - 0.0001
SAFE_FRAC_PI_2 == FRAC_PI_2 - 1

-----------------------------------------------------------------------------
(* f32::sin_cos, on a table of exact unit vectors (Pythagorean triples of  *)
(* hypotenuse TrigScale), the angle rounded to the nearest table entry.    *)

\* the table entry nearest to a first-quadrant angle 0 <= a < FRAC_PI_2
Bucket(a) ==
    IF a < 1419 THEN 1
    ELSE IF a < 4637 THEN 2
    ELSE IF a < 7854 THEN 3
    ELSE IF a < 11072 THEN 4
    ELSE IF a < 14289 THEN 5
    ELSE 6

SinTable == <<0, 7, 15, 20, 24, 25>>

CosTable == <<25, 24, 20, 15, 7, 0>>

\* <<sin a, cos a>> for any angle, by quadrant
SinCos(a) ==
    LET r == a % (4 * FRAC_PI_2)
        q == r \div FRAC_PI_2
        f == r % FRAC_PI_2
        s == SinTable[Bucket(f)]
        c == CosTable[Bucket(f)]
    IN  CASE q = 0 -> <<s, c>>
          [] q = 1 -> <<c, -s>>
          [] q = 2 -> <<-s, -c>>
          [] q = 3 -> <<-c, s>>

-----------------------------------------------------------------------------
(* cgmath Vector3 *)

Vec(x, y, z) == <<x, y, z>>

VAdd(u, v) == <<u[1] + v[1], u[2] + v[2], u[3] + v[3]>>

VMul(v, k) == <<v[1] * k, v[2] * k, v[3] * k>>

Dot(u, v) == u[1] * v[1] + u[2] * v[2] + u[3] * v[3]

\* floor of the square root, by bisection on lo <= sqrt(n) < hi
RECURSIVE Bisect(_, _, _)
Bisect(n, lo, hi) ==
    IF hi - lo <= 1 THEN lo
    ELSE LET mid == (lo + hi) \div 2
         IN  IF mid * mid <= n THEN Bisect(n, mid, hi) ELSE Bisect(n, lo, mid)

ISqrt(n) == Bisect(n, 0, 2 * VecScale)

\* InnerSpace::normalize: v / |v|, the result in 1/VecScale
Normalize(v) ==
    LET m == ISqrt(Dot(v, v))
    IN  <<(v[1] * VecScale) \div m, (v[2] * VecScale) \div m, (v[3] * VecScale) \div m>>

-----------------------------------------------------------------------------
(* winit KeyCode, ElementState, MouseScrollDelta *)

BoundKeys == {"KeyW", "ArrowUp", "KeyS", "ArrowDown", "KeyA", "ArrowLeft",
              "KeyD", "ArrowRight", "Space", "ShiftLeft"}

KeyCodes == BoundKeys \cup {"KeyQ"}

\* the keys pressed and released while the camera is driven
DrivenKeys == {"KeyW", "ArrowUp", "KeyD", "KeyQ"}

ElementStates == {"Pressed", "Released"}

ScrollDeltas == {[kind |-> "LineDelta", y |-> 1],
                 [kind |-> "PixelDelta", y |-> -30]}

\* raw pointer deltas (dx, dy) of DeviceEvent::MouseMotion
MouseDeltas == {<<30, 2>>, <<-50, 400>>}

\* frame times, in 1/DtScale s
Durations == {0, 16}

Axes == {"amount_forward", "amount_backward", "amount_left", "amount_right",
         "amount_up", "amount_down"}

-----------------------------------------------------------------------------
(* Camera::new and CameraController::new *)

CameraNew(position, yaw, pitch) ==
    [position |-> position, yaw |-> yaw, pitch |-> pitch]

ControllerNew(speed, sensitivity) ==
    [speed |-> speed, sensitivity |-> sensitivity,
     amount_left |-> 0, amount_right |-> 0,
     amount_forward |-> 0, amount_backward |-> 0,
     amount_up |-> 0, amount_down |-> 0,
     rotate_horizontal |-> 0, rotate_vertical |-> 0, scroll |-> 0]

\* the position every modelled camera starts at
Position0 == Vec(0, 0, 0)

\* initial <<yaw, pitch>>: level, looking up out of the safe range, exactly
\* straight down
InitAngles == {<<0, 0>>, <<-7854, 20000>>, <<FRAC_PI_2, -FRAC_PI_2>>}

\* <<speed, sensitivity>>
InitTunings == {<<4, 4>>, <<0, 1>>}

-----------------------------------------------------------------------------
(* CameraController::process_keyboard *)

\* ArrowDown bound to the vertical axis instead of the backward axis
KeyAxisArrowDownIsDown(keycode) ==
    CASE keycode \in {"KeyW", "ArrowUp"}        -> "amount_forward"
      [] keycode = "KeyS"                       -> "amount_backward"
      [] keycode \in {"KeyA", "ArrowLeft"}      -> "amount_left"
      [] keycode \in {"KeyD", "ArrowRight"}     -> "amount_right"
      [] keycode = "Space"                      -> "amount_up"
      [] keycode \in {"ShiftLeft", "ArrowDown"} -> "amount_down"
      [] OTHER                                  -> "none"

\* the axis a key is bound to, "none" for an unbound key
KeyAxis(keycode) ==
    CASE keycode \in {"KeyW", "ArrowUp"}    -> "amount_forward"
      [] keycode \in {"KeyS", "ArrowDown"}  -> "amount_backward"
      [] keycode \in {"KeyA", "ArrowLeft"}  -> "amount_left"
      [] keycode \in {"KeyD", "ArrowRight"} -> "amount_right"
      [] keycode = "Space"                  -> "amount_up"
      [] keycode = "ShiftLeft"              -> "amount_down"
      [] OTHER                              -> "none"

\* a release that leaves the axis set
AmountIgnoringRelease(state) == 1

Amount(state) == IF state = "Pressed" THEN 1 ELSE 0

\* <<controller afterwards, return value>>
process_keyboard(self, keycode, state) ==
    LET amount == Amount(state)
        axis == KeyAxis(keycode)
    IN  IF axis = "none"
        THEN <<self, FALSE>>
        ELSE <<[self EXCEPT ![axis] = amount], TRUE>>

-----------------------------------------------------------------------------
(* CameraController::handle_mouse, handle_mouse_scroll *)

\* pointer deltas summed up instead of overwritten
handle_mouse_accumulating(self, mouse_dx, mouse_dy) ==
    [self EXCEPT !.rotate_horizontal = @ + mouse_dx, !.rotate_vertical = @ + mouse_dy]

handle_mouse(self, mouse_dx, mouse_dy) ==
    [self EXCEPT !.rotate_horizontal = mouse_dx, !.rotate_vertical = mouse_dy]

ScrollAmount(delta) ==
    IF delta.kind = "LineDelta" THEN delta.y * 100 ELSE delta.y

handle_mouse_scroll(self, delta) ==
    [self EXCEPT !.scroll = -ScrollAmount(delta)]

-----------------------------------------------------------------------------
(* CameraController::update_camera *)

Forward(yaw) ==
    LET sc == SinCos(yaw)
    IN  Normalize(Vec(sc[2] * TrigScale, 0, sc[1] * TrigScale))

Right(yaw) ==
    LET sc == SinCos(yaw)
    IN  Normalize(Vec(-sc[1] * TrigScale, 0, sc[2] * TrigScale))

Scrollward(yaw, pitch) ==
    LET y == SinCos(yaw)
        p == SinCos(pitch)
    IN  Normalize(Vec(p[2] * y[2], p[1] * TrigScale, p[2] * y[1]))

\* the clamp without its upper branch
ClampPitchBelowOnly(pitch) ==
    IF pitch < -SAFE_FRAC_PI_2 THEN -SAFE_FRAC_PI_2 ELSE pitch

ClampPitch(pitch) ==
    IF pitch < -SAFE_FRAC_PI_2 THEN -SAFE_FRAC_PI_2
    ELSE IF pitch > SAFE_FRAC_PI_2 THEN SAFE_FRAC_PI_2
    ELSE pitch

\* the position after the four position updates of one tick
MovedPosition(self, cam, dt) ==
    LET p1 == VAdd(cam.position,
                   VMul(Forward(cam.yaw),
                        (self.amount_forward - self.amount_backward)
                            * self.speed * dt * SensScale))
        p2 == VAdd(p1,
                   VMul(Right(cam.yaw),
                        (self.amount_right - self.amount_left)
                            * self.speed * dt * SensScale))
        p3 == VAdd(p2,
                   VMul(Scrollward(cam.yaw, cam.pitch),
                        self.scroll * self.speed * self.sensitivity * dt))
    IN  Vec(p3[1],
            p3[2] + (self.amount_up - self.amount_down)
                        * self.speed * dt * VecScale * SensScale,
            p3[3])

\* the yaw after the rotation of one tick
TurnedYaw(self, cam, dt) ==
    cam.yaw + self.rotate_horizontal * self.sensitivity * dt

\* the pitch after the rotation of one tick, before the clamp
TurnedPitch(self, cam, dt) ==
    cam.pitch + (-self.rotate_vertical) * self.sensitivity * dt

\* a tick that leaves the rotation accumulators as they are
update_camera_keeping_rotation(self, cam, dt) ==
    <<[self EXCEPT !.scroll = 0],
      [position |-> MovedPosition(self, cam, dt),
       yaw |-> TurnedYaw(self, cam, dt),
       pitch |-> ClampPitch(TurnedPitch(self, cam, dt))]>>

\* a tick that leaves the scroll accumulator as it is
update_camera_keeping_scroll(self, cam, dt) ==
    <<[self EXCEPT !.rotate_horizontal = 0, !.rotate_vertical = 0],
      [position |-> MovedPosition(self, cam, dt),
       yaw |-> TurnedYaw(self, cam, dt),
       pitch |-> ClampPitch(TurnedPitch(self, cam, dt))]>>

\* a tick that turns the camera first and moves it along the new directions
update_camera_turning_first(self, cam, dt) ==
    LET turned == [cam EXCEPT !.yaw = TurnedYaw(self, cam, dt),
                              !.pitch = ClampPitch(TurnedPitch(self, cam, dt))]
    IN  <<[self EXCEPT !.scroll = 0, !.rotate_horizontal = 0, !.rotate_vertical = 0],
          [turned EXCEPT !.position = MovedPosition(self, turned, dt)]>>

\* <<controller afterwards, camera afterwards>>
update_camera(self, cam, dt) ==
    <<[self EXCEPT !.scroll = 0, !.rotate_horizontal = 0, !.rotate_vertical = 0],
      [position |-> MovedPosition(self, cam, dt),
       yaw |-> TurnedYaw(self, cam, dt),
       pitch |-> ClampPitch(TurnedPitch(self, cam, dt))]>>

-----------------------------------------------------------------------------
(* The controller driven by its caller *)

Push(calls, c) ==
    LET s == Append(calls, c)
    IN  IF Len(s) > 3 THEN Tail(s) ELSE s

\* the latest call
call == IF recent = <<>> THEN [op |-> "new"] ELSE recent[Len(recent)]

CamInit ==
    /\ \E a \in InitAngles : camera = CameraNew(Position0, a[1], a[2])
    /\ \E t \in InitTunings : ctl = ControllerNew(t[1], t[2])
    /\ held = {}
    /\ axisEvt = [a \in Axes |-> <<"none", "none">>]
    /\ recent = <<>>
    /\ nCalls = 0

ProcessKeyboard(keycode, state) ==
    /\ nCalls < MaxCalls
    /\ LET r == process_keyboard(ctl, keycode, state)
       IN  /\ ctl' = r[1]
           /\ recent' = Push(recent, [op |-> "process_keyboard", keycode |-> keycode,
                                      state |-> state, ret |-> r[2]])
    /\ held' = IF state = "Pressed" THEN held \cup {keycode} ELSE held \ {keycode}
    /\ axisEvt' = IF KeyAxis(keycode) \in Axes
                  THEN [axisEvt EXCEPT ![KeyAxis(keycode)] = <<keycode, state>>]
                  ELSE axisEvt
    /\ nCalls' = nCalls + 1
    /\ UNCHANGED <<camera, cubeVars, appVars>>

HandleMouse(mouse_dx, mouse_dy) ==
    /\ nCalls < MaxCalls
    /\ ctl' = handle_mouse(ctl, mouse_dx, mouse_dy)
    /\ recent' = Push(recent, [op |-> "handle_mouse", mouse_dx |-> mouse_dx,
                               mouse_dy |-> mouse_dy])
    /\ nCalls' = nCalls + 1
    /\ UNCHANGED <<camera, held, axisEvt, cubeVars, appVars>>

HandleMouseScroll(delta) ==
    /\ nCalls < MaxCalls
    /\ ctl' = handle_mouse_scroll(ctl, delta)
    /\ recent' = Push(recent, [op |-> "handle_mouse_scroll", delta |-> delta])
    /\ nCalls' = nCalls + 1
    /\ UNCHANGED <<camera, held, axisEvt, cubeVars, appVars>>

UpdateCamera(dt) ==
    /\ nCalls < MaxCalls
    /\ LET r == update_camera(ctl, camera, dt)
       IN  /\ ctl' = r[1]
           /\ camera' = r[2]
    /\ recent' = Push(recent, [op |-> "update_camera", dt |-> dt])
    /\ nCalls' = nCalls + 1
    /\ UNCHANGED <<held, axisEvt, cubeVars, appVars>>

-----------------------------------------------------------------------------
(* Cubemap::new, CubeTexture::create_2d, Cubemap::build *)

\* the workgroup edge the dispatch divides by
WorkgroupSize == 16

CubemapNew ==
    [texture_format |-> "Rgba32Float",
     equirect_layout |-> "equirect_to_cubemap_bind_group_layout",
     equirect_to_cubemap |-> "Equirect To Cubemap Pipeline"]

\* the encoded images handed to build
ByteStrings == {"png bytes", "garbage"}

DstSizes == (1..MaxDstSize) \cup {32, 33, 512}

\* whether the image decoder accepts the bytes
Decodes(data) == data = "png bytes"

\* texture::Texture::from_bytes: <<Ok or Err, what it asked of the device>>
TextureFromBytes(data, label) ==
    IF Decodes(data)
    THEN <<[ok |-> TRUE, view |-> label],
           <<[op |-> "create_texture", label |-> label, layers |-> 1],
             [op |-> "write_texture", label |-> label],
             [op |-> "create_view", of |-> label, dimension |-> "D2"],
             [op |-> "create_sampler", label |-> label]>> >>
    ELSE <<[ok |-> FALSE, err |-> "DecodeError"], <<>> >>

\* <<the CubeTexture, what it asked of the device>>
CubeTextureCreate2d(width, height, format) ==
    <<[width |-> width, height |-> height, layers |-> 6, format |-> format],
      <<[op |-> "create_texture", label |-> "Cubemap Texture", width |-> width,
         height |-> height, layers |-> 6, format |-> format],
        [op |-> "create_view", of |-> "Cubemap Texture", dimension |-> "Cube"],
        [op |-> "create_sampler", label |-> "Cubemap Texture"]>> >>

\* u32::div_ceil rounding down
DivFloor(a, b) == a \div b

\* u32::div_ceil
DivCeil(a, b) ==
    LET d == a \div b
        r == a % b
    IN  IF r > 0 THEN d + 1 ELSE d

\* what build asks of the device and the queue once the image is decoded
ConversionPass(self, texture, dst_size, label) ==
    LET num_workgroups == DivCeil(dst_size, WorkgroupSize)
    IN  <<[op |-> "create_view", of |-> "Cubemap Texture", dimension |-> "D2Array"],
          [op |-> "create_bind_group", layout |-> self.equirect_layout,
           binding0 |-> texture.view, binding1 |-> "Cubemap Texture"],
          [op |-> "create_command_encoder"],
          [op |-> "begin_compute_pass", label |-> label],
          [op |-> "set_pipeline", pipeline |-> self.equirect_to_cubemap],
          [op |-> "set_bind_group", index |-> 0],
          [op |-> "dispatch_workgroups", x |-> num_workgroups,
           y |-> num_workgroups, z |-> 6],
          [op |-> "end_compute_pass"],
          [op |-> "submit"]>>

\* a build that allocates the destination before it looks at the decoder's
\* answer
build_allocating_before_decode(self, data, dst_size, label) ==
    LET t == TextureFromBytes(data, label)
        dst == CubeTextureCreate2d(dst_size, dst_size, self.texture_format)
    IN  IF ~t[1].ok
        THEN <<[ok |-> FALSE, err |-> t[1].err], dst[2]>>
        ELSE <<[ok |-> TRUE, texture |-> dst[1]],
               t[2] \o dst[2] \o ConversionPass(self, t[1], dst_size, label)>>

\* <<Ok(CubeTexture) or Err, what it asked of the device and the queue>>
build(self, data, dst_size, label) ==
    LET t == TextureFromBytes(data, label)
    IN  IF ~t[1].ok
        THEN <<[ok |-> FALSE, err |-> t[1].err], <<>> >>
        ELSE LET dst == CubeTextureCreate2d(dst_size, dst_size, self.texture_format)
             IN  <<[ok |-> TRUE, texture |-> dst[1]],
                   t[2] \o dst[2] \o ConversionPass(self, t[1], dst_size, label)>>

CubeInit ==
    /\ converter = CubemapNew
    /\ gpu = <<>>
    /\ builds = <<>>

Build(data, dst_size) ==
    /\ Len(builds) < MaxBuilds
    /\ LET r == build(converter, data, dst_size, "sky")
       IN  /\ gpu' = gpu \o r[2]
           /\ builds' = Append(builds, [data |-> data, dst_size |-> dst_size,
                                        ret |-> r[1]])
    /\ UNCHANGED <<converter, camVars, appVars>>

-----------------------------------------------------------------------------
(* App: ApplicationHandler::resumed and window_event *)

\* what WindowState::render can return
RenderResults == {"Ok", "Lost", "OutOfMemory"}

WindowEvents == {"Resized", "RedrawRequested", "CloseRequested", "CursorMoved"}

\* the time between two events
TimeSteps == {0, 16}

\* WindowState::resize, update, render and window_event, as the calls made
WindowStateCall(log, c) == Append(log, c)

AppNew(now) == [window_state |-> "None", last_render_time |-> now]

resumed(self) ==
    IF self.window_state = "Some"
    THEN self
    ELSE [self EXCEPT !.window_state = "Some"]

\* a handler that leaves the event loop when a frame cannot be rendered
window_event_exiting_on_error(self, w, event, now, rendered) ==
    IF self.window_state # "Some" THEN <<self, w>>
    ELSE CASE event = "Resized" ->
                <<self, [w EXCEPT !.frames = WindowStateCall(@, [op |-> "resize"])]>>
           [] event = "RedrawRequested" ->
                LET dt == now - self.last_render_time
                    f1 == WindowStateCall(w.frames, [op |-> "update", dt |-> dt])
                    f2 == WindowStateCall(f1, [op |-> "render", ret |-> rendered])
                IN  <<[self EXCEPT !.last_render_time = now],
                      [w EXCEPT !.frames = f2,
                                !.exiting = IF rendered = "Ok" THEN @ ELSE TRUE]>>
           [] event = "CloseRequested" ->
                <<self, [w EXCEPT !.exiting = TRUE]>>
           [] OTHER ->
                <<self, [w EXCEPT !.frames = WindowStateCall(@, [op |-> "window_event"])]>>

\* <<App afterwards, [exiting, frames, errlog] afterwards>>, given what
\* Instant::now() and WindowState::render return
window_event(self, w, event, now, rendered) ==
    IF self.window_state # "Some" THEN <<self, w>>
    ELSE CASE event = "Resized" ->
                <<self, [w EXCEPT !.frames = WindowStateCall(@, [op |-> "resize"])]>>
           [] event = "RedrawRequested" ->
                LET dt == now - self.last_render_time
                    f1 == WindowStateCall(w.frames, [op |-> "update", dt |-> dt])
                    f2 == WindowStateCall(f1, [op |-> "render", ret |-> rendered])
                IN  <<[self EXCEPT !.last_render_time = now],
                      [w EXCEPT !.frames = f2,
                                !.errlog = IF rendered = "Ok" THEN @
                                           ELSE Append(@, <<"Unable to render", rendered>>)]>>
           [] event = "CloseRequested" ->
                <<self, [w EXCEPT !.exiting = TRUE]>>
           [] OTHER ->
                <<self, [w EXCEPT !.frames = WindowStateCall(@, [op |-> "window_event"])]>>

AppInit ==
    /\ clock = 0
    /\ app = AppNew(clock)
    /\ exiting = FALSE
    /\ frames = <<>>
    /\ errlog = <<>>
    /\ events = <<>>

Resumed(step) ==
    /\ ~exiting
    /\ Len(events) < MaxEvents
    /\ clock' = clock + step
    /\ app' = resumed(app)
    /\ events' = Append(events, [event |-> "Resumed", at |-> clock'])
    /\ UNCHANGED <<exiting, frames, errlog, camVars, cubeVars>>

WindowEvent(event, step, rendered) ==
    /\ ~exiting
    /\ Len(events) < MaxEvents
    \* only a redraw asks WindowState::render for a result
    /\ event # "RedrawRequested" => rendered = "Ok"
    /\ clock' = clock + step
    /\ LET r == window_event(app, [exiting |-> exiting, frames |-> frames,
                                   errlog |-> errlog], event, clock', rendered)
       IN  /\ app' = r[1]
           /\ exiting' = r[2].exiting
           /\ frames' = r[2].frames
           /\ errlog' = r[2].errlog
    /\ events' = Append(events, [event |-> event, at |-> clock'])
    /\ UNCHANGED <<camVars, cubeVars>>

-----------------------------------------------------------------------------
(* Specifications *)

CamIdle ==
    /\ camera = CameraNew(Position0, 0, 0)
    /\ ctl = ControllerNew(4, 4)
    /\ held = {}
    /\ axisEvt = [a \in Axes |-> <<"none", "none">>]
    /\ recent = <<>>
    /\ nCalls = 0

Init == CamInit /\ CubeInit /\ AppInit

Next ==
    \/ \E k \in DrivenKeys, s \in ElementStates :
          \* a key is released only after it was pressed
          /\ s = "Released" => k \in held
          /\ ProcessKeyboard(k, s)
    \/ \E d \in MouseDeltas : HandleMouse(d[1], d[2])
    \/ \E d \in ScrollDeltas : HandleMouseScroll(d)
    \/ \E dt \in Durations : UpdateCamera(dt)

\* the camera controller driven by key, pointer and scroll events and ticks
Spec == Init /\ [][Next]_vars

KeyboardInit == CamInit /\ CubeInit /\ AppInit

KeyboardNext ==
    \/ \E k \in KeyCodes, s \in ElementStates :
          nCalls < MaxKeyCalls /\ ProcessKeyboard(k, s)
    \/ \E d \in MouseDeltas : nCalls < MaxKeyCalls /\ HandleMouse(d[1], d[2])
    \/ \E d \in ScrollDeltas : nCalls < MaxKeyCalls /\ HandleMouseScroll(d)

\* the controller given any key event, pointer sample and scroll, without ticks
SpecKeyboard == KeyboardInit /\ [][KeyboardNext]_vars

CubeSpecInit == CamIdle /\ CubeInit /\ AppInit

CubeNext == \E data \in ByteStrings, dst_size \in DstSizes : Build(data, dst_size)

\* the converter asked to build cubemaps
SpecCube == CubeSpecInit /\ [][CubeNext]_vars

AppSpecInit == CamIdle /\ CubeInit /\ AppInit

AppNext ==
    \/ \E step \in TimeSteps : Resumed(step)
    \/ \E e \in WindowEvents, step \in TimeSteps, r \in RenderResults :
          WindowEvent(e, step, r)

\* the application handling the event loop's events
SpecApp == AppSpecInit /\ [][AppNext]_vars

-----------------------------------------------------------------------------
(* Properties of the camera controller *)

\* this step is a call of operation op
Calls(op) == nCalls' = nCalls + 1 /\ call'.op = op

\* x brought into [-SAFE_FRAC_PI_2, SAFE_FRAC_PI_2]
IntoSafeRange(x) ==
    IF x < -SAFE_FRAC_PI_2 THEN -SAFE_FRAC_PI_2
    ELSE IF x > SAFE_FRAC_PI_2 THEN SAFE_FRAC_PI_2
    ELSE x

MovementAxesIdle ==
    /\ ctl.amount_forward = 0 /\ ctl.amount_backward = 0
    /\ ctl.amount_left = 0 /\ ctl.amount_right = 0
    /\ ctl.amount_up = 0 /\ ctl.amount_down = 0

\* C1: after each update_camera call the camera pitch lies in
\* [-SAFE_FRAC_PI_2, SAFE_FRAC_PI_2], so it is never +pi/2 or -pi/2, whatever
\* the initial pitch, the controller's tuning and the calls made before.
C1_PitchInSafeRange ==
    call.op = "update_camera" =>
        /\ -SAFE_FRAC_PI_2 <= camera.pitch
        /\ camera.pitch <= SAFE_FRAC_PI_2
        /\ camera.pitch # FRAC_PI_2
        /\ camera.pitch # -FRAC_PI_2

\* a camera constructed looking up beyond pi/2, clamped by its first tick
C1_Witness ==
    /\ nCalls = 1
    /\ call.op = "update_camera"
    /\ camera.pitch = SAFE_FRAC_PI_2

\* C2: handle_mouse(dx, dy) followed by update_camera(dt) adds
\* dx*sensitivity*dt to the yaw and subtracts dy*sensitivity*dt from the pitch
\* (then clamped), and zeroes both rotation accumulators; an update_camera
\* with no handle_mouse since the tick before it leaves yaw and pitch as they
\* are.
C2_MouseConsumedByOneTick ==
    [][Calls("update_camera") =>
        /\ ctl'.rotate_horizontal = 0
        /\ ctl'.rotate_vertical = 0
        /\ call.op = "handle_mouse" =>
            /\ camera'.yaw = camera.yaw
                               + call.mouse_dx * ctl.sensitivity * call'.dt
            /\ camera'.pitch = IntoSafeRange(camera.pitch
                               - call.mouse_dy * ctl.sensitivity * call'.dt)
        /\ (\E i \in 1..Len(recent) :
                /\ recent[i].op = "update_camera"
                /\ \A j \in (i + 1)..Len(recent) : recent[j].op # "handle_mouse") =>
            /\ camera'.yaw = camera.yaw
            /\ camera'.pitch = camera.pitch
    ]_vars

\* handle_mouse(30, 2), a 16 ms tick that turns the camera, a second tick
\* that does not
C2_Witness ==
    /\ nCalls = 3
    /\ recent = <<[op |-> "handle_mouse", mouse_dx |-> 30, mouse_dy |-> 2],
                  [op |-> "update_camera", dt |-> 16],
                  [op |-> "update_camera", dt |-> 16]>>
    /\ ctl.sensitivity > 0
    /\ camera.yaw = 30 * ctl.sensitivity * 16
    /\ camera.pitch = -2 * ctl.sensitivity * 16

\* C3: after one handle_mouse_scroll event, with no movement key held, the
\* first update_camera moves the position along the scroll-ward direction by
\* scroll*speed*sensitivity*dt and zeroes the scroll accumulator; the tick
\* after it leaves the position as it is.
C3_ScrollOneShot ==
    [][Calls("update_camera") =>
        /\ ctl'.scroll = 0
        /\ (call.op = "handle_mouse_scroll" /\ MovementAxesIdle) =>
            /\ ctl.scroll = -ScrollAmount(call.delta)
            /\ camera'.position =
                  VAdd(camera.position,
                       VMul(Scrollward(camera.yaw, camera.pitch),
                            ctl.scroll * ctl.speed * ctl.sensitivity * call'.dt))
        /\ (call.op = "update_camera" /\ MovementAxesIdle) =>
            camera'.position = camera.position
    ]_vars

\* one scroll line, a 16 ms tick that moves the camera, a second tick: the
\* camera is where the first tick put it
C3_Witness ==
    /\ nCalls = 3
    /\ recent = <<[op |-> "handle_mouse_scroll",
                   delta |-> [kind |-> "LineDelta", y |-> 1]],
                  [op |-> "update_camera", dt |-> 16],
                  [op |-> "update_camera", dt |-> 16]>>
    /\ ctl.speed > 0
    /\ camera.position # Position0
    /\ \E a \in InitAngles :
          camera.position =
              VMul(Scrollward(a[1], a[2]), -100 * ctl.speed * ctl.sensitivity * 16)

OtherAxesIdle ==
    /\ ctl.amount_backward = 0
    /\ ctl.amount_left = 0 /\ ctl.amount_right = 0
    /\ ctl.amount_up = 0 /\ ctl.amount_down = 0

\* (cos yaw, 0, sin yaw) * speed * dt, in position units
ForwardStep(yaw, speed, dt) ==
    LET sc == SinCos(yaw)
    IN  VMul(Vec(sc[2] * TrigScale, 0, sc[1] * TrigScale), speed * dt * SensScale)

\* C4: while the latest forward-key event is process_keyboard(KeyW, Pressed),
\* no other axis is active and no scroll is pending, every update_camera
\* displaces the position by (cos yaw, 0, sin yaw)*speed*dt: in the horizontal
\* plane, and not zero when dt > 0 and speed > 0. Once the latest forward-key
\* event is process_keyboard(KeyW, Released) the ticks leave the position as
\* it is.
C4_KeyWMovesForwardUntilReleased ==
    [][(Calls("update_camera") /\ OtherAxesIdle /\ ctl.scroll = 0) =>
        /\ axisEvt.amount_forward = <<"KeyW", "Pressed">> =>
            /\ camera'.position =
                  VAdd(camera.position, ForwardStep(camera.yaw, ctl.speed, call'.dt))
            /\ camera'.position[2] = camera.position[2]
            /\ (call'.dt > 0 /\ ctl.speed > 0) => camera'.position # camera.position
        /\ axisEvt.amount_forward = <<"KeyW", "Released">> =>
            camera'.position = camera.position
    ]_vars

\* KeyW pressed, a 16 ms tick, KeyW released, another tick: the camera stands
\* one step forward of where it started
C4_Witness ==
    /\ nCalls = 4
    /\ recent = <<[op |-> "update_camera", dt |-> 16],
                  [op |-> "process_keyboard", keycode |-> "KeyW",
                   state |-> "Released", ret |-> TRUE],
                  [op |-> "update_camera", dt |-> 16]>>
    /\ ctl.speed > 0
    /\ camera.position # Position0
    /\ \E a \in InitAngles : camera.position = ForwardStep(a[1], ctl.speed, 16)

\* the axis the specification binds a key to
BoundAxis(keycode) ==
    CASE keycode \in {"KeyW", "ArrowUp"}    -> "amount_forward"
      [] keycode \in {"KeyS", "ArrowDown"}  -> "amount_backward"
      [] keycode \in {"KeyA", "ArrowLeft"}  -> "amount_left"
      [] keycode \in {"KeyD", "ArrowRight"} -> "amount_right"
      [] keycode = "Space"                  -> "amount_up"
      [] keycode = "ShiftLeft"              -> "amount_down"

\* C5: process_keyboard returns true exactly for the ten bound keys, sets the
\* key's axis to 1 on Pressed and 0 on Released and nothing else; for another
\* key it returns false and changes nothing.
C5_KeyboardFrame ==
    [][Calls("process_keyboard") =>
        LET k == call'.keycode
        IN  /\ call'.ret = (k \in BoundKeys)
            /\ k \in BoundKeys =>
                /\ ctl'[BoundAxis(k)] = (IF call'.state = "Pressed" THEN 1 ELSE 0)
                /\ \A f \in (DOMAIN ctl) \ {BoundAxis(k)} : ctl'[f] = ctl[f]
            /\ k \notin BoundKeys => ctl' = ctl
            /\ camera' = camera
    ]_vars

\* ArrowDown pressed while a pointer sample is pending
C5_Witness ==
    /\ recent = <<[op |-> "handle_mouse", mouse_dx |-> 30, mouse_dy |-> 2],
                  [op |-> "process_keyboard", keycode |-> "ArrowDown",
                   state |-> "Pressed", ret |-> TRUE]>>
    /\ ctl.amount_backward = 1
    /\ ctl.amount_down = 0
    /\ ctl.rotate_horizontal = 30
    /\ ctl.rotate_vertical = 2

\* C6: of several handle_mouse calls between two ticks only the last one
\* counts: the pending rotation is the last call's arguments, and the next
\* update_camera turns the camera by that sample alone.
C6_LastMouseSampleWins ==
    [][/\ Calls("handle_mouse") =>
            /\ ctl'.rotate_horizontal = call'.mouse_dx
            /\ ctl'.rotate_vertical = call'.mouse_dy
       /\ (/\ Calls("update_camera")
           /\ Len(recent) >= 2
           /\ recent[Len(recent) - 1].op = "handle_mouse"
           /\ call.op = "handle_mouse") =>
            /\ camera'.yaw = camera.yaw
                               + call.mouse_dx * ctl.sensitivity * call'.dt
            /\ camera'.pitch = IntoSafeRange(camera.pitch
                               - call.mouse_dy * ctl.sensitivity * call'.dt)
    ]_vars

\* two different samples, then a 16 ms tick: the yaw has turned by the second
C6_Witness ==
    /\ nCalls = 3
    /\ recent = <<[op |-> "handle_mouse", mouse_dx |-> 30, mouse_dy |-> 2],
                  [op |-> "handle_mouse", mouse_dx |-> -50, mouse_dy |-> 400],
                  [op |-> "update_camera", dt |-> 16]>>
    /\ ctl.sensitivity > 0
    /\ camera.yaw = -50 * ctl.sensitivity * 16
    /\ camera.pitch = -SAFE_FRAC_PI_2

\* C10: an axis is 1 whenever at least one of the keys bound to it is held.
C10_AxisSetWhileAKeyIsHeld ==
    \A k \in held : k \in BoundKeys => ctl[BoundAxis(k)] = 1

\* the displacement of one tick along the directions of yaw and pitch:
\* forward (cos yaw, 0, sin yaw), right (-sin yaw, 0, cos yaw), scroll-ward
\* (cos pitch cos yaw, sin pitch, cos pitch sin yaw), and straight up
TickStep(c, yaw, pitch, dt) ==
    LET y == SinCos(yaw)
        p == SinCos(pitch)
        fwd == Vec(y[2] * TrigScale, 0, y[1] * TrigScale)
        rgt == Vec(-y[1] * TrigScale, 0, y[2] * TrigScale)
        scr == Vec(p[2] * y[2], p[1] * TrigScale, p[2] * y[1])
    IN  VAdd(VAdd(VMul(fwd, (c.amount_forward - c.amount_backward)
                                * c.speed * dt * SensScale),
                  VMul(rgt, (c.amount_right - c.amount_left)
                                * c.speed * dt * SensScale)),
             VAdd(VMul(scr, c.scroll * c.speed * c.sensitivity * dt),
                  Vec(0, (c.amount_up - c.amount_down)
                             * c.speed * dt * VecScale * SensScale, 0)))

\* C11: one update_camera moves the position along the directions of the yaw
\* and pitch the camera had on entry, and only then turns the camera by the
\* pending pointer sample; the tick after it moves along the turned
\* directions.
C11_MovesBeforeItTurns ==
    [][Calls("update_camera") =>
        /\ camera'.position =
              VAdd(camera.position,
                   TickStep(ctl, camera.yaw, camera.pitch, call'.dt))
        /\ camera'.yaw = camera.yaw
                           + ctl.rotate_horizontal * ctl.sensitivity * call'.dt
        /\ camera'.pitch = IntoSafeRange(camera.pitch
                           - ctl.rotate_vertical * ctl.sensitivity * call'.dt)
    ]_vars

\* handle_mouse(-50, 400) and KeyW pressed, then two 16 ms ticks from yaw 0:
\* the first step is along yaw 0, the second along the turned yaw, and the
\* two directions differ
C11_Witness ==
    /\ nCalls = 4
    /\ recent = <<[op |-> "process_keyboard", keycode |-> "KeyW",
                   state |-> "Pressed", ret |-> TRUE],
                  [op |-> "update_camera", dt |-> 16],
                  [op |-> "update_camera", dt |-> 16]>>
    /\ ctl.speed > 0
    /\ camera.yaw = -50 * ctl.sensitivity * 16
    /\ camera.position = VAdd(ForwardStep(0, ctl.speed, 16),
                              ForwardStep(camera.yaw, ctl.speed, 16))
    /\ ForwardStep(0, ctl.speed, 16) # ForwardStep(camera.yaw, ctl.speed, 16)

-----------------------------------------------------------------------------
(* Properties of the cubemap converter *)

\* this step is a Cubemap::build call
Builds == Len(builds') = Len(builds) + 1

\* the build call of this step
ThisBuild == builds'[Len(builds')]

\* what this step asked of the device and the queue
Asked == SubSeq(gpu', Len(gpu) + 1, Len(gpu'))

\* C7: build on bytes that do not decode returns the decode error, asks
\* nothing of the device or the queue (no destination texture, bind group,
\* compute pass or submission) and leaves the converter as it is; a build on
\* bytes that decode succeeds whatever was built before.
C7_DecodeErrorLeavesNoTrace ==
    [][Builds =>
        /\ converter' = converter
        /\ converter' = CubemapNew
        /\ ~Decodes(ThisBuild.data) =>
            /\ ThisBuild.ret = [ok |-> FALSE, err |-> "DecodeError"]
            /\ gpu' = gpu
        /\ Decodes(ThisBuild.data) => ThisBuild.ret.ok
    ]_vars

\* a build on garbage, then a build on an image that succeeds
C7_Witness ==
    /\ Len(builds) = 2
    /\ builds[1].data = "garbage" /\ ~builds[1].ret.ok
    /\ builds[2].data = "png bytes" /\ builds[2].ret.ok
    /\ gpu # <<>>
    /\ gpu[1].op = "create_texture" /\ gpu[1].layers = 1

\* C8: a successful build of size dst_size > 0 records one compute pass with
\* one dispatch of (n, n, 6) workgroups, 16*(n-1) < dst_size <= 16*n, so
\* every texel column and row of the six faces falls in a dispatched
\* workgroup; the dispatch comes before the one queue submission, and the
\* texture returned has 6 layers of dst_size x dst_size.
C8_DispatchCoversEveryFace ==
    [][(Builds /\ ThisBuild.ret.ok /\ ThisBuild.dst_size > 0) =>
        LET d == ThisBuild.dst_size
            at(op) == {i \in 1..Len(Asked) : Asked[i].op = op}
        IN  /\ Cardinality(at("begin_compute_pass")) = 1
            /\ Cardinality(at("dispatch_workgroups")) = 1
            /\ Cardinality(at("submit")) = 1
            /\ \A i \in at("dispatch_workgroups") :
                  /\ Asked[i].x = Asked[i].y
                  /\ Asked[i].z = 6
                  /\ 16 * (Asked[i].x - 1) < d
                  /\ d <= 16 * Asked[i].x
                  /\ \A texel \in 0..(d - 1) : texel \div 16 < Asked[i].x
                  /\ \A b \in at("begin_compute_pass") : b < i
                  /\ \A j \in at("submit") : i < j
            /\ ThisBuild.ret.texture.layers = 6
            /\ ThisBuild.ret.texture.width = d
            /\ ThisBuild.ret.texture.height = d
            /\ \E i \in at("create_texture") :
                  /\ Asked[i].layers = 6
                  /\ Asked[i].width = d
                  /\ Asked[i].height = d
    ]_vars

\* a 17 x 17 cubemap, dispatched as (2, 2, 6)
C8_Witness ==
    /\ builds # <<>>
    /\ builds[Len(builds)].dst_size = 17
    /\ builds[Len(builds)].ret.ok
    /\ gpu[Len(gpu)].op = "submit"
    /\ gpu[Len(gpu) - 2] = [op |-> "dispatch_workgroups", x |-> 2, y |-> 2, z |-> 6]

-----------------------------------------------------------------------------
(* Properties of the application's event handler *)

\* this step handles the window event e
Handles(e) ==
    /\ Len(events') = Len(events) + 1
    /\ events'[Len(events')].event = e

\* C9: a RedrawRequested event runs update(dt) and then render(), with dt the
\* time since last_render_time, which it sets to now; a render error is
\* logged and changes nothing else: the loop is not left, and the redraws
\* that follow are updated and rendered in the same way. Only CloseRequested
\* leaves the loop.
C9_RedrawUpdatesThenRenders ==
    [][/\ (Handles("RedrawRequested") /\ app.window_state = "Some") =>
            LET n == Len(frames)
            IN  /\ Len(frames') = n + 2
                /\ SubSeq(frames', 1, n) = frames
                /\ frames'[n + 1] = [op |-> "update",
                                     dt |-> clock' - app.last_render_time]
                /\ frames'[n + 2].op = "render"
                /\ app'.last_render_time = clock'
                /\ exiting' = exiting
                /\ frames'[n + 2].ret = "Ok" => errlog' = errlog
                /\ frames'[n + 2].ret # "Ok" =>
                      errlog' = Append(errlog,
                                       <<"Unable to render", frames'[n + 2].ret>>)
       /\ exiting' # exiting => Handles("CloseRequested")
    ]_vars

\* a frame whose render failed, and a later frame updated and rendered
C9_Witness ==
    /\ ~exiting
    /\ errlog # <<>>
    /\ \E i \in 1..Len(frames) :
          /\ frames[i].op = "render" /\ frames[i].ret = "Lost"
          /\ i + 2 <= Len(frames)
          /\ frames[i + 1].op = "update" /\ frames[i + 1].dt = 16
          /\ frames[i + 2] = [op |-> "render", ret |-> "Ok"]

====
